---- MODULE Spec2Model ----
(***************************************************************************)
(* Model of cargo-deb's control-archive assembly (src/control.rs):          *)
(* generate_archive and the generators it sequences, over an abstract      *)
(* filesystem holding the user's maintainer-script directory, the systemd  *)
(* workspace (deb_temp_dir()/systemd) and the triggers file.               *)
(*                                                                         *)
(* Byte strings are sequences of chunks (strings); Option<T> is a sequence *)
(* of length 0 (None) or 1 (Some).                                         *)
(***************************************************************************)
EXTENDS Integers, Sequences, FiniteSets, TLC

VARIABLES
    options,      \* &Config of the invocation in progress
    time,         \* the `time` argument of the invocation in progress
    asset_hashes, \* the `asset_hashes` argument: target path -> digest
    userDir,      \* files of the maintainer_scripts directory, by name
    triggersPath, \* the file at the configured triggers_file path
    tmpDir,       \* the workspace directory deb_temp_dir()/systemd
    pc,           \* position inside generate_archive / generate_scripts
    archive,      \* the local `archive` being built
    search_dirs,  \* the local `search_dirs` of generate_scripts
    listener,     \* messages handed to listener.info
    result,       \* what generate_archive handed back to its caller
    fault,        \* which fault ended the invocation ("none" while running)
    staleNames,   \* workspace scripts written by an earlier invocation
    archivedStale,\* a script of staleNames was archived by this invocation
    reference     \* inputs and bytes of a recorded earlier successful run

vars == <<options, time, asset_hashes, userDir, triggersPath, tmpDir, pc, archive,
          search_dirs, listener, result, fault, staleNames, archivedStale,
          reference>>

----------------------------------------------------------------------------
(* Bounds of the model *)

\* most files the user's maintainer-script directory holds
MaxUserScripts == 1
\* most entries of options.assets.resolved
MaxAssets == 2

----------------------------------------------------------------------------
(* Option<T> *)

None == <<>>
Some(v) == <<v>>
IsSome(o) == o # <<>>
Unwrap(o) == o[1]

(* Files *)

NoFile == [exists |-> FALSE, readable |-> FALSE, data |-> <<>>]
File(d) == [exists |-> TRUE, readable |-> TRUE, data |-> d]
Unreadable == [exists |-> TRUE, readable |-> FALSE, data |-> <<>>]

\* fs::read(path): Ok(bytes) for a readable file, Err otherwise
FsRead(f) == IF f.exists /\ f.readable THEN Some(f.data) ELSE None

----------------------------------------------------------------------------
(* The archive writer (crate::tararchive::Archive) *)

ArchiveNew(t) == [time |-> t, entries |-> <<>>]

\* archive.file(name, data, mode): one more member, stamped with the
\* archive's time
ArchiveFile(a, name, data, mode) ==
    [a EXCEPT !.entries =
        Append(@, [name |-> name, data |-> data, mode |-> mode,
                   mtime |-> a.time])]

\* archive.into_inner(): the bytes of the members in the order appended
IntoInner(a) == a.entries

MODE_FILE == 420    \* 0o644
MODE_SCRIPT == 493  \* 0o755

----------------------------------------------------------------------------
(* generate_md5sums *)

HexDigits == <<"0","1","2","3","4","5","6","7","8","9","a","b","c","d","e","f">>

\* write!(md5sums, "{:x}", value): two lowercase hex digits per digest byte
RECURSIVE LowerHex(_)
LowerHex(digest) ==
    IF digest = <<>> THEN <<>>
    ELSE <<HexDigits[(Head(digest) \div 16) + 1],
           HexDigits[(Head(digest) % 16) + 1]>> \o LowerHex(Tail(digest))

\* as_unix_path(): the path's components joined by forward slashes
RECURSIVE AsUnixPath(_)
AsUnixPath(path) ==
    IF Len(path) <= 1 THEN path
    ELSE <<Head(path), "/">> \o AsUnixPath(Tail(path))

\* asset_hashes.get(&asset.target_path)
HashGet(hashes, target_path) ==
    IF target_path \in DOMAIN hashes
    THEN Some(hashes[target_path]) ELSE None

\* Md5sumsLine with one space between the digest and the path
Md5sumsLineOneSpace(asset, hashes) ==
    LET value == HashGet(hashes, asset.target_path) IN
    IF IsSome(value)
    THEN LowerHex(Unwrap(value)) \o <<" ">>
         \o AsUnixPath(asset.target_path) \o <<"\n">>
    ELSE <<>>

\* the body of the loop over options.assets.resolved, for one asset
Md5sumsLine(asset, hashes) ==
    LET value == HashGet(hashes, asset.target_path) IN
    IF IsSome(value)
    THEN LowerHex(Unwrap(value)) \o <<"  ">>
         \o AsUnixPath(asset.target_path) \o <<"\n">>
    ELSE <<>>

\* the md5sums buffer after the loop over the resolved assets, in list order
RECURSIVE Md5sumsData(_, _)
Md5sumsData(resolved, hashes) ==
    IF resolved = <<>> THEN <<>>
    ELSE Md5sumsLine(Head(resolved), hashes)
         \o Md5sumsData(Tail(resolved), hashes)

----------------------------------------------------------------------------
(* generate_control *)

\* repo.starts_with("http")
StartsWithHttp(repo) == repo.scheme \in {"http", "https"}

\* options.repository_type(): the kind of version control the URL names
RepositoryType(repo) ==
    IF repo.scheme = "git+ssh" \/ repo.host = "github.com" THEN Some("Git")
    ELSE IF repo.scheme = "svn" THEN Some("Svn")
    ELSE None

VcsKey(kind) == IF kind = "Git" THEN "Vcs-Git" ELSE "Vcs-Svn"

\* one "Key: value" line
Field(key, value) == <<[kind |-> "field", key |-> key, value |-> value]>>

\* a field written only for Some(value)
OptField(key, opt) == IF IsSome(opt) THEN Field(key, Unwrap(opt)) ELSE <<>>

\* text.split_by_chars(n): the words (given by their lengths) packed greedily
\* into lines of at most n characters, single spaces between words
RECURSIVE SplitWords(_, _, _, _)
SplitWords(words, n, line, used) ==
    IF words = <<>> THEN (IF line = <<>> THEN <<>> ELSE <<line>>)
    ELSE LET w == Head(words) IN
         IF line = <<>> THEN SplitWords(Tail(words), n, <<w>>, w)
         ELSE IF used + 1 + w <= n
              THEN SplitWords(Tail(words), n, Append(line, w), used + 1 + w)
              ELSE <<line>> \o SplitWords(Tail(words), n, <<w>>, w)

SplitByChars(text, n) == SplitWords(text, n, <<>>, 0)

WRAP_WIDTH == 79

\* writeln!(" {}", line) for every wrapped line of a description
RECURSIVE DescriptionLines(_)
DescriptionLines(lines) ==
    IF lines = <<>> THEN <<>>
    ELSE <<[kind |-> "text", key |-> " ", value |-> Head(lines)]>>
         \o DescriptionLines(Tail(lines))

\* options.assets.resolved.iter().filter_map(|m| m.source.len()).sum()
RECURSIVE SumSourceLen(_)
SumSourceLen(resolved) ==
    IF resolved = <<>> THEN 0
    ELSE (IF IsSome(Head(resolved).source_len)
          THEN Unwrap(Head(resolved).source_len) ELSE 0)
         + SumSourceLen(Tail(resolved))

KIB == 1024

InstalledSize(resolved) == SumSourceLen(resolved) \div KIB

\* VcsFields with the Vcs-<Kind> line written ahead of Vcs-Browser
VcsFieldsKindFirst(o) ==
    IF IsSome(o.repository)
    THEN LET repo == Unwrap(o.repository) IN
         (IF IsSome(RepositoryType(repo))
          THEN Field(VcsKey(Unwrap(RepositoryType(repo))), repo) ELSE <<>>)
         \o (IF StartsWithHttp(repo) THEN Field("Vcs-Browser", repo) ELSE <<>>)
    ELSE <<>>

\* the repository lines
VcsFields(o) ==
    IF IsSome(o.repository)
    THEN LET repo == Unwrap(o.repository) IN
         (IF StartsWithHttp(repo) THEN Field("Vcs-Browser", repo) ELSE <<>>)
         \o (IF IsSome(RepositoryType(repo))
             THEN Field(VcsKey(Unwrap(RepositoryType(repo))), repo) ELSE <<>>)
    ELSE <<>>

\* options.homepage.as_ref().or(options.documentation.as_ref())
HomepageOr(o) == IF IsSome(o.homepage) THEN o.homepage ELSE o.documentation

\* the control buffer, line by line, given the resolved dependencies
ControlData(o, depends) ==
    Field("Package", o.deb_name)
    \o Field("Version", o.deb_version)
    \o Field("Architecture", o.architecture)
    \o VcsFields(o)
    \o OptField("Homepage", HomepageOr(o))
    \o OptField("Section", o.section)
    \o Field("Priority", o.priority)
    \o Field("Standards-Version", "3.9.4")
    \o Field("Maintainer", o.maintainer)
    \o Field("Installed-Size", InstalledSize(o.assets.resolved))
    \o Field("Depends", depends)
    \o OptField("Build-Depends", o.build_depends)
    \o OptField("Conflicts", o.conflicts)
    \o OptField("Breaks", o.breaks)
    \o OptField("Replaces", o.replaces)
    \o OptField("Provides", o.provides)
    \o <<[kind |-> "open", key |-> "Description", value |-> <<>>]>>
    \o DescriptionLines(SplitByChars(o.description, WRAP_WIDTH))
    \o (IF IsSome(o.extended_description)
        THEN DescriptionLines(SplitByChars(Unwrap(o.extended_description),
                                           WRAP_WIDTH))
        ELSE <<>>)
    \o <<[kind |-> "newline", key |-> "", value |-> <<>>]>>

----------------------------------------------------------------------------
(* generate_conf_files *)

\* files.as_bytes() followed by one newline
ConfFilesData(files) == <<files, "\n">>

----------------------------------------------------------------------------
(* generate_scripts: names, directories, the two systemd collaborators *)

\* ScriptNames with postinst looked for ahead of preinst
ScriptNamesSwapped ==
    <<"config", "postinst", "preinst", "prerm", "postrm", "templates">>

\* the names generate_scripts looks for, in the order of its loop
ScriptNames == <<"config", "preinst", "postinst", "prerm", "postrm", "templates">>

NameSet == {ScriptNames[i] : i \in DOMAIN ScriptNames}

\* the scripts the systemd helpers write fragments for
FragmentNames == <<"preinst", "postinst", "prerm", "postrm">>

FragmentNameSet == {FragmentNames[i] : i \in DOMAIN FragmentNames}

TOKEN == "#DEBHELPER#"

NoDir == [exists |-> FALSE, frags |-> {}, scripts |-> [n \in NameSet |-> NoFile]]
EmptyDir == [exists |-> TRUE, frags |-> {}, scripts |-> [n \in NameSet |-> NoFile]]

\* the file `name` of directory `dir` ("user": maintainer_scripts, "tmp": the
\* workspace)
DirFile(dir, name, user, tmp) ==
    IF dir = "user" THEN user[name]
    ELSE IF tmp.exists THEN tmp.scripts[name] ELSE NoFile

\* util::find_first(dirs, name): the first directory that holds `name`
RECURSIVE FindFirst(_, _, _, _)
FindFirst(dirs, name, user, tmp) ==
    IF dirs = <<>> THEN None
    ELSE IF DirFile(Head(dirs), name, user, tmp).exists THEN Some(Head(dirs))
    ELSE FindFirst(Tail(dirs), name, user, tmp)

\* dh_installsystemd::generate: the fragments the unit options call for,
\* written into the workspace
DhInstallsystemdGenerate(tmp, units) ==
    [tmp EXCEPT !.frags = @ \cup units.needs]

Fragment(name) == <<"systemd fragment", name>>

HasToken(data) == \E i \in DOMAIN data : data[i] = TOKEN

\* the script text with every token replaced by the fragment
RECURSIVE Subst(_, _)
Subst(data, frag) ==
    IF data = <<>> THEN <<>>
    ELSE (IF Head(data) = TOKEN THEN frag ELSE <<Head(data)>>)
         \o Subst(Tail(data), frag)

\* dh_lib::apply on one script name: the workspace with the merged or
\* generated script (and the names written so far), or a fault when the
\* user's script cannot take the fragment
DhLibApplyOne(st, user, name) ==
    LET frag == IF name \in st.tmp.frags THEN Fragment(name) ELSE <<>>
        Write(data) == [fault |-> FALSE,
                        tmp |-> [st.tmp EXCEPT !.scripts[name] = File(data)],
                        written |-> st.written \cup {name}]
    IN
    IF user[name].exists
    THEN IF user[name].readable /\ HasToken(user[name].data)
         THEN Write(Subst(user[name].data, frag))
         ELSE [st EXCEPT !.fault = TRUE]
    ELSE IF name \in st.tmp.frags
         THEN Write(<<"#!/bin/sh", "set -e">> \o frag)
         ELSE st

\* dh_lib::apply: every fragment name in turn, stopping at the first fault
RECURSIVE DhLibApplyFrom(_, _, _)
DhLibApplyFrom(st, user, names) ==
    IF names = <<>> THEN st
    ELSE LET one == DhLibApplyOne(st, user, Head(names)) IN
         IF one.fault THEN one
         ELSE DhLibApplyFrom(one, user, Tail(names))

\* the workspace dh_lib::apply leaves, the names it wrote and whether a fault
\* stopped it
DhLibApply(tmp, user) ==
    DhLibApplyFrom([fault |-> FALSE, tmp |-> tmp, written |-> {}], user,
                   FragmentNames)

\* InsertTmpDir as search_dirs.push(tmp_dir)
InsertTmpDirLast(dirs) == dirs \o <<"tmp">>

\* search_dirs.insert(0, tmp_dir)
InsertTmpDir(dirs) == <<"tmp">> \o dirs

\* the loop over the script names, run over the first k names without a
\* fault: the archive and the listener's messages after it
RECURSIVE ScriptsLoop(_, _, _, _, _, _)
ScriptsLoop(k, names, dirs, user, tmp, st) ==
    IF k = 0 THEN st
    ELSE LET before == ScriptsLoop(k - 1, names, dirs, user, tmp, st)
             name == names[k]
             found == FindFirst(dirs, name, user, tmp)
         IN  IF IsSome(found)
             THEN LET script == FsRead(DirFile(Unwrap(found), name, user, tmp))
                  IN [archive |->
                          IF IsSome(script)
                          THEN ArchiveFile(before.archive, name, Unwrap(script),
                                           MODE_SCRIPT)
                          ELSE before.archive,
                      listener |->
                          Append(before.listener,
                                 <<"Archiving", Unwrap(found), name>>)]
             ELSE before

----------------------------------------------------------------------------
(* Inputs *)

TargetPaths == {<<"usr", "bin", "app">>, <<"etc", "app.conf">>}

SourceLens == {None, Some(1023), Some(2048)}

Assets == [target_path : TargetPaths, source_len : SourceLens]

Digests == {<<10>>, <<255, 1>>}

\* every list of at most n assets
RECURSIVE AssetLists(_)
AssetLists(n) ==
    IF n = 0 THEN {<<>>}
    ELSE LET shorter == AssetLists(n - 1) IN
         shorter \cup {Append(l, a) : l \in {x \in shorter : Len(x) = n - 1},
                                      a \in Assets}

\* every digest map: a digest for some of the target paths
HashMaps == UNION {[ps -> Digests] : ps \in SUBSET TargetPaths}

Urls == {[scheme |-> "https", host |-> "github.com"],
         [scheme |-> "https", host |-> "example.org"],
         [scheme |-> "git+ssh", host |-> "example.org"],
         [scheme |-> "ftp", host |-> "example.org"]}

Opt(S) == {None} \cup {Some(v) : v \in S}

Texts == {<<>>, <<5, 7>>, <<40, 38, 39>>}

\* the fields generate_control reads, every optional one present or absent
ControlOptions ==
    [deb_name : {"foo"}, deb_version : {"1.0"}, architecture : {"amd64"},
     repository : Opt(Urls),
     homepage : Opt({"https://foo.example"}),
     documentation : Opt({"https://docs.example"}),
     section : Opt({"utils"}),
     priority : {"optional"}, maintainer : {"A <a@b.c>"},
     depends : {"libc6"},
     build_depends : Opt({"debhelper"}), conflicts : Opt({"bar"}),
     breaks : Opt({"baz"}), replaces : Opt({"qux"}), provides : Opt({"foo-ng"}),
     description : Texts,
     extended_description : Opt({<<40, 40>>})]

\* one configuration of the control fields, for the runs of the whole pipeline
PipelineControl ==
    [deb_name |-> "foo", deb_version |-> "1.0", architecture |-> "amd64",
     repository |-> Some([scheme |-> "https", host |-> "github.com"]),
     homepage |-> None,
     documentation |-> Some("https://docs.example"),
     section |-> None,
     priority |-> "optional", maintainer |-> "A <a@b.c>",
     depends |-> "libc6",
     build_depends |-> None, conflicts |-> None,
     breaks |-> None, replaces |-> None, provides |-> None,
     description |-> <<5, 7>>,
     extended_description |-> None]

PipelineAssets ==
    <<[target_path |-> <<"usr", "bin", "app">>, source_len |-> Some(2048)],
      [target_path |-> <<"etc", "app.conf">>, source_len |-> Some(1023)]>>

PipelineHashes ==
    [p \in TargetPaths |-> IF p = <<"etc", "app.conf">> THEN <<10>> ELSE <<255, 1>>]

\* Config: the control fields and the packaging fields together
Config(control, resolved, conf, scripts, units, triggers) ==
    control @@ [assets |-> [resolved |-> resolved],
                conf_files |-> conf,
                maintainer_scripts |-> scripts,
                systemd_units |-> units,
                triggers_file |-> triggers]

\* a user's script of the given name: with the token, without it, or one
\* that cannot be read
UserFile(name, kind) ==
    IF kind = "unreadable" THEN Unreadable
    ELSE File(<<"#!/bin/sh", "user", name>>
              \o (IF kind = "token" THEN <<TOKEN>> ELSE <<>>))

UserFileKinds == {"token", "plain", "unreadable"}

\* the maintainer-script directories holding at most MaxUserScripts files
UserDirs ==
    UNION {{[n \in NameSet |-> IF n \in present THEN UserFile(n, kinds[n])
                                ELSE NoFile] :
                kinds \in [present -> UserFileKinds]} :
           present \in {x \in SUBSET NameSet : Cardinality(x) <= MaxUserScripts}}

\* the sets of script names a unit configuration may need fragments for
UnitNeeds == {{}, {"preinst"}, {"postinst"}, {"prerm", "postrm"},
              {"postinst", "prerm", "postrm"}}

\* systemd_units: not configured, or the fragments the configured units need
UnitChoices == Opt({[needs |-> s] : s \in UnitNeeds})

Times == {1, 2}

----------------------------------------------------------------------------
(* State machine *)

NoResult == [kind |-> "none", bytes |-> <<>>]

NoFault == [step |-> "none", what |-> "none"]

Idle == pc \in {"idle", "done", "failed"}

\* an Err (or a panic) leaves generate_archive: the caller gets no bytes
Fail(kind, what) ==
    /\ pc' = "failed"
    /\ fault' = [step |-> pc, what |-> what]
    /\ result' = [kind |-> kind, bytes |-> <<>>]

Running(next) ==
    /\ pc' = next
    /\ UNCHANGED <<fault, result>>

\* before the first call: no workspace yet, nothing returned
InitLocals ==
    /\ tmpDir = NoDir
    /\ staleNames = {}
    /\ archivedStale = FALSE
    /\ search_dirs = <<>>
    /\ listener = <<>>
    /\ result = NoResult
    /\ fault = NoFault
    /\ reference = None
    /\ time = 1

Init ==
    /\ InitLocals
    /\ pc = "idle"
    /\ archive = ArchiveNew(1)
    /\ asset_hashes = PipelineHashes
    /\ \E conf \in Opt({"/etc/foo.conf"}), scripts \in Opt({"debian"}),
          triggers \in Opt({"debian/triggers"}) :
          /\ options = Config(PipelineControl, PipelineAssets, conf, scripts,
                              None, triggers)
          /\ userDir \in (IF IsSome(scripts) THEN UserDirs
                          ELSE {[n \in NameSet |-> NoFile]})
          /\ triggersPath \in (IF IsSome(triggers)
                               THEN {NoFile, File(<<"interest /usr/lib/foo">>)}
                               ELSE {NoFile})

\* a call of generate_archive(options, time, asset_hashes, listener) with a
\* time of T and a systemd_units of U: Archive::new(time); what an earlier
\* call left in the workspace is stale
Call(T, U) ==
    /\ Idle
    /\ \E t \in T, units \in U :
          /\ time' = t
          /\ options' = [options EXCEPT !.systemd_units = units]
          /\ archive' = ArchiveNew(t)
    /\ pc' = "md5sums"
    /\ result' = NoResult
    /\ fault' = NoFault
    /\ search_dirs' = <<>>
    /\ listener' = <<>>
    /\ staleNames' = {n \in NameSet : tmpDir.exists /\ tmpDir.scripts[n].exists}
    /\ archivedStale' = FALSE
    /\ UNCHANGED <<asset_hashes, userDir, triggersPath, tmpDir, reference>>

Start == Call(Times, UnitChoices)

\* calls for the comparison of two runs: any inputs until a run has
\* succeeded, the inputs of that run from then on
StartFirst == reference = None /\ Call(Times, UnitChoices)

StartAgain ==
    /\ IsSome(reference)
    /\ Call({Unwrap(reference).time}, {Unwrap(reference).systemd_units})

\* generate_md5sums walking the digest map, in whatever order it iterates,
\* instead of the resolved assets
generate_md5sums_map_order ==
    /\ pc = "md5sums"
    /\ \E order \in {o \in AssetLists(Len(options.assets.resolved)) :
                        /\ Len(o) = Len(options.assets.resolved)
                        /\ \A a \in Assets :
                              Cardinality({i \in DOMAIN o : o[i] = a}) =
                              Cardinality({i \in DOMAIN o :
                                              options.assets.resolved[i] = a})} :
          archive' = ArchiveFile(archive, "./md5sums",
                                 Md5sumsData(order, asset_hashes), MODE_FILE)
    /\ Running("control")
    /\ UNCHANGED <<options, time, asset_hashes, userDir, triggersPath, tmpDir,
                   search_dirs, listener, staleNames, archivedStale, reference>>

generate_md5sums ==
    /\ pc = "md5sums"
    /\ \/ /\ archive' = ArchiveFile(archive, "./md5sums",
                            Md5sumsData(options.assets.resolved, asset_hashes),
                            MODE_FILE)
          /\ Running("control")
       \/ /\ Fail("err", "write")
          /\ UNCHANGED archive
       \/ /\ Fail("err", "append")
          /\ UNCHANGED archive
    /\ UNCHANGED <<options, time, asset_hashes, userDir, triggersPath, tmpDir, search_dirs,
                   listener, staleNames, archivedStale, reference>>

generate_control ==
    /\ pc = "control"
    /\ \/ /\ archive' = ArchiveFile(archive, "./control",
                            ControlData(options, options.depends), MODE_FILE)
          /\ Running("conffiles")
       \/ /\ Fail("err", "write")
          /\ UNCHANGED archive
       \/ /\ Fail("err", "dependencies")
          /\ UNCHANGED archive
       \/ /\ Fail("err", "append")
          /\ UNCHANGED archive
    /\ UNCHANGED <<options, time, asset_hashes, userDir, triggersPath, tmpDir, search_dirs,
                   listener, staleNames, archivedStale, reference>>

\* generate_conf_files with its fault dropped by the caller: the call goes on
generate_conf_files_swallowed ==
    /\ pc = "conffiles"
    /\ \/ /\ IsSome(options.conf_files)
          /\ archive' = ArchiveFile(archive, "./conffiles",
                            ConfFilesData(Unwrap(options.conf_files)), MODE_FILE)
          /\ UNCHANGED fault
       \/ /\ IsSome(options.conf_files)
          /\ \E what \in {"write", "append"} :
                fault' = [step |-> pc, what |-> what]
          /\ UNCHANGED archive
       \/ /\ ~IsSome(options.conf_files)
          /\ UNCHANGED <<archive, fault>>
    /\ pc' = "scripts"
    /\ UNCHANGED <<options, time, asset_hashes, userDir, triggersPath, tmpDir,
                   search_dirs, listener, staleNames, archivedStale, reference,
                   result>>

generate_conf_files ==
    /\ pc = "conffiles"
    /\ \/ /\ IsSome(options.conf_files)
          /\ archive' = ArchiveFile(archive, "./conffiles",
                            ConfFilesData(Unwrap(options.conf_files)), MODE_FILE)
          /\ Running("scripts")
       \/ /\ IsSome(options.conf_files)
          /\ \E what \in {"write", "append"} : Fail("err", what)
          /\ UNCHANGED archive
       \/ /\ ~IsSome(options.conf_files)
          /\ Running("scripts")
          /\ UNCHANGED archive
    /\ UNCHANGED <<options, time, asset_hashes, userDir, triggersPath, tmpDir, search_dirs,
                   listener, staleNames, archivedStale, reference>>

\* generate_scripts creating the workspace only when it is missing, without
\* removing an existing one
generate_scripts_keep_dir ==
    /\ pc = "scripts"
    /\ \/ /\ ~IsSome(options.maintainer_scripts)
          /\ Running("triggers")
          /\ UNCHANGED <<tmpDir, search_dirs, staleNames>>
       \/ /\ IsSome(options.maintainer_scripts)
          /\ ~IsSome(options.systemd_units)
          /\ search_dirs' = <<"user">>
          /\ Running("archive_scripts")
          /\ UNCHANGED <<tmpDir, staleNames>>
       \/ /\ IsSome(options.maintainer_scripts)
          /\ IsSome(options.systemd_units)
          /\ search_dirs' = <<"user">>
          /\ tmpDir' = IF tmpDir.exists THEN tmpDir ELSE EmptyDir
          /\ UNCHANGED staleNames
          /\ Running("generate")
    /\ UNCHANGED <<options, time, asset_hashes, userDir, triggersPath, archive,
                   listener, archivedStale, reference>>

\* generate_scripts up to the call of the fragment generator: nothing without
\* maintainer_scripts; with systemd_units, remove_dir_all and create_dir of
\* the workspace (a remove_dir_all that fails has removed nothing, or the
\* scripts and not yet the rest)
generate_scripts ==
    /\ pc = "scripts"
    /\ \/ /\ ~IsSome(options.maintainer_scripts)
          /\ Running("triggers")
          /\ UNCHANGED <<tmpDir, search_dirs, staleNames>>
       \/ /\ IsSome(options.maintainer_scripts)
          /\ ~IsSome(options.systemd_units)
          /\ search_dirs' = <<"user">>
          /\ Running("archive_scripts")
          /\ UNCHANGED <<tmpDir, staleNames>>
       \/ /\ IsSome(options.maintainer_scripts)
          /\ IsSome(options.systemd_units)
          /\ search_dirs' = <<"user">>
          /\ \/ /\ tmpDir' = EmptyDir
                /\ staleNames' = {}
                /\ Running("generate")
             \/ /\ tmpDir.exists
                /\ Fail("err", "remove_dir_all")
                /\ \/ UNCHANGED <<tmpDir, staleNames>>
                   \/ /\ tmpDir' = [EmptyDir EXCEPT !.frags = tmpDir.frags]
                      /\ staleNames' = {}
             \/ /\ tmpDir' = NoDir
                /\ staleNames' = {}
                /\ Fail("err", "create_dir")
    /\ UNCHANGED <<options, time, asset_hashes, userDir, triggersPath, archive,
                   listener, archivedStale, reference>>

\* dh_installsystemd::generate(maintainer_scripts, name, resolved, tmp_dir, ..)
dh_installsystemd_generate ==
    /\ pc = "generate"
    /\ tmpDir' = DhInstallsystemdGenerate(tmpDir, Unwrap(options.systemd_units))
    /\ Running("apply")
    /\ UNCHANGED <<options, time, asset_hashes, userDir, triggersPath, archive,
                   search_dirs, listener, staleNames, archivedStale, reference>>

\* dh_lib::apply(tmp_dir, name, unit_name, listener), then
\* search_dirs.insert(0, tmp_dir)
dh_lib_apply ==
    /\ pc = "apply"
    /\ LET applied == DhLibApply(tmpDir, userDir) IN
       /\ tmpDir' = applied.tmp
       /\ staleNames' = staleNames \ applied.written
       /\ \/ /\ applied.fault
             /\ Fail("panic", "token")
             /\ UNCHANGED search_dirs
          \/ /\ ~applied.fault
             /\ search_dirs' = InsertTmpDir(search_dirs)
             /\ Running("archive_scripts")
    /\ UNCHANGED <<options, time, asset_hashes, userDir, triggersPath, archive,
                   listener, archivedStale, reference>>

\* the names among the first k that the loop archived from the workspace
ArchivedFromTmp(k) ==
    {ScriptNames[i] : i \in {j \in 1..k :
        LET found == FindFirst(search_dirs, ScriptNames[j], userDir, tmpDir) IN
        /\ found = Some("tmp")
        /\ IsSome(FsRead(DirFile("tmp", ScriptNames[j], userDir, tmpDir)))}}

\* the loop of generate_scripts over the script names: it runs to its end, or
\* a found script's path cannot be made relative to the manifest directory
\* (canonicalize().unwrap(), strip_prefix().unwrap()), or archive.file fails
archive_scripts ==
    /\ pc = "archive_scripts"
    /\ LET start == [archive |-> archive, listener |-> listener]
           Loop(k) == ScriptsLoop(k, ScriptNames, search_dirs, userDir, tmpDir,
                                  start)
           Found(k) == FindFirst(search_dirs, ScriptNames[k], userDir, tmpDir)
       IN
       \/ /\ archive' = Loop(Len(ScriptNames)).archive
          /\ listener' = Loop(Len(ScriptNames)).listener
          /\ archivedStale' = (ArchivedFromTmp(Len(ScriptNames)) \cap staleNames # {})
          /\ Running("triggers")
       \/ \E k \in DOMAIN ScriptNames :
             /\ IsSome(Found(k))
             /\ archive' = Loop(k - 1).archive
             /\ listener' = Loop(k - 1).listener
             /\ archivedStale' = (ArchivedFromTmp(k - 1) \cap staleNames # {})
             /\ Fail("panic", "path")
       \/ \E k \in DOMAIN ScriptNames :
             /\ IsSome(Found(k))
             /\ IsSome(FsRead(DirFile(Unwrap(Found(k)), ScriptNames[k],
                                      userDir, tmpDir)))
             /\ archive' = Loop(k - 1).archive
             /\ listener' = Loop(k).listener
             /\ archivedStale' = (ArchivedFromTmp(k - 1) \cap staleNames # {})
             /\ Fail("err", "append")
    /\ UNCHANGED <<options, time, asset_hashes, userDir, triggersPath, tmpDir,
                   search_dirs, staleNames, reference>>

\* generate_triggers_file passing the read error on (fs::read(path)?)
generate_triggers_file_strict ==
    /\ pc = "triggers"
    /\ \/ /\ ~IsSome(options.triggers_file)
          /\ Running("into_inner")
          /\ UNCHANGED archive
       \/ /\ IsSome(options.triggers_file)
          /\ LET content == FsRead(triggersPath) IN
             \/ /\ IsSome(content)
                /\ archive' = ArchiveFile(archive, "./triggers", Unwrap(content),
                                          MODE_FILE)
                /\ Running("into_inner")
             \/ /\ ~IsSome(content)
                /\ Fail("err", "read")
                /\ UNCHANGED archive
    /\ UNCHANGED <<options, time, asset_hashes, userDir, triggersPath, tmpDir,
                   search_dirs, listener, staleNames, archivedStale, reference>>

generate_triggers_file ==
    /\ pc = "triggers"
    /\ \/ /\ ~IsSome(options.triggers_file)
          /\ Running("into_inner")
          /\ UNCHANGED archive
       \/ /\ IsSome(options.triggers_file)
          /\ LET content == FsRead(triggersPath) IN
             \/ /\ IsSome(content)
                /\ archive' = ArchiveFile(archive, "./triggers", Unwrap(content),
                                          MODE_FILE)
                /\ Running("into_inner")
             \/ /\ IsSome(content)
                /\ Fail("err", "append")
                /\ UNCHANGED archive
             \/ /\ ~IsSome(content)
                /\ Running("into_inner")
                /\ UNCHANGED archive
    /\ UNCHANGED <<options, time, asset_hashes, userDir, triggersPath, tmpDir,
                   search_dirs, listener, staleNames, archivedStale, reference>>

\* Ok(archive.into_inner()?)
Return(record) ==
    /\ pc = "into_inner"
    /\ \/ /\ pc' = "done"
          /\ result' = [kind |-> "ok", bytes |-> IntoInner(archive)]
          /\ UNCHANGED fault
          /\ reference' =
                IF ~record THEN reference
                ELSE IF IsSome(reference)
                THEN Some([Unwrap(reference) EXCEPT !.again = TRUE])
                ELSE Some([systemd_units |-> options.systemd_units,
                           time |-> time, bytes |-> IntoInner(archive),
                           again |-> FALSE])
       \/ /\ Fail("err", "into_inner")
          /\ UNCHANGED reference
    /\ UNCHANGED <<options, time, asset_hashes, userDir, triggersPath, tmpDir,
                   archive, search_dirs, listener, staleNames, archivedStale>>

into_inner == Return(FALSE)

\* the same, keeping the first successful run's inputs and bytes, and whether
\* a later run succeeded too, for the comparison of two runs
into_inner_recorded == Return(TRUE)

Steps ==
    \/ generate_md5sums
    \/ generate_control
    \/ generate_conf_files
    \/ generate_scripts
    \/ dh_installsystemd_generate
    \/ dh_lib_apply
    \/ archive_scripts
    \/ generate_triggers_file

Next == Start \/ Steps \/ into_inner

Spec == Init /\ [][Next]_vars

NextRepro == StartFirst \/ StartAgain \/ Steps \/ into_inner_recorded

SpecRepro == Init /\ [][NextRepro]_vars

\* generate_md5sums alone, over the asset lists and the digest maps
InitMd5sums ==
    /\ InitLocals
    /\ pc = "md5sums"
    /\ archive = ArchiveNew(1)
    /\ \E resolved \in AssetLists(MaxAssets) :
          options = Config(PipelineControl, resolved, None, None, None, None)
    /\ asset_hashes \in HashMaps
    /\ userDir = [n \in NameSet |-> NoFile]
    /\ triggersPath = NoFile

SpecMd5sums == InitMd5sums /\ [][generate_md5sums]_vars

\* asset lists for the Installed-Size line: none, files, a symlink
ControlAssetLists ==
    {<<>>, PipelineAssets,
     <<[target_path |-> <<"usr", "bin", "app">>, source_len |-> None]>>}

\* generate_control alone, after generate_md5sums, over the control fields
InitControl ==
    /\ InitLocals
    /\ pc = "control"
    /\ \E control \in ControlOptions, resolved \in ControlAssetLists :
          /\ options = Config(control, resolved, None, None, None, None)
          /\ archive = ArchiveFile(ArchiveNew(1), "./md5sums",
                                   Md5sumsData(resolved, PipelineHashes),
                                   MODE_FILE)
    /\ asset_hashes = PipelineHashes
    /\ userDir = [n \in NameSet |-> NoFile]
    /\ triggersPath = NoFile

SpecControl == InitControl /\ [][generate_control]_vars

----------------------------------------------------------------------------
(* Properties *)

Entries == archive.entries

Members(name) == {i \in DOMAIN Entries : Entries[i].name = name}

\* the call handed bytes back
Returned == result.kind = "ok"

\* the steps of generate_scripts that follow dh_lib::apply, and what follows
AfterApply == {"archive_scripts", "triggers", "into_inner", "done"}

AfterScripts == {"triggers", "into_inner", "done"}

SystemdConfigured ==
    IsSome(options.maintainer_scripts) /\ IsSome(options.systemd_units)

\* C1: generate_archive never hands back a partial archive. Bytes are
\* returned only by a call that reached its end with no fault, and they are
\* the whole archive; a call that faulted (an I/O error on the workspace, a
\* write error, a dependency error, an append error, a missing token) ends
\* failed with no bytes; and with systemd integration configured no call gets
\* past the token substitution while a user's script lacks the token.
NoPartialArchive ==
    /\ Returned =>
          /\ pc = "done"
          /\ fault = NoFault
          /\ result.bytes = IntoInner(archive)
    /\ ~Returned => result.bytes = <<>>
    /\ fault # NoFault =>
          /\ pc = "failed"
          /\ result.kind \in {"err", "panic"}
    /\ pc = "failed" => fault # NoFault
    /\ (pc \in AfterApply /\ SystemdConfigured) =>
          \A n \in FragmentNameSet :
             userDir[n].exists => HasToken(userDir[n].data)

\* C1 witness: a call that had already built members faulted on a user
\* script without the token and handed nothing back.
PartialArchiveDropped ==
    /\ pc = "failed"
    /\ fault.what = "token"
    /\ Len(Entries) >= 2
    /\ \E n \in FragmentNameSet : userDir[n].exists /\ userDir[n].readable
                                  /\ ~HasToken(userDir[n].data)
    /\ result.bytes = <<>>

\* C2: with systemd integration configured, whatever is archived under a
\* script name is the file of the first directory of the search path that
\* holds the name: the workspace's file, not the user's original, when both
\* hold it; the file of the one directory that holds it otherwise.
FirstMatchWins ==
    (pc \in AfterScripts /\ SystemdConfigured) =>
       \A n \in NameSet : \A i \in Members(n) :
          LET t == tmpDir.scripts[n]
              u == userDir[n]
          IN /\ t.exists \/ u.exists
             /\ (t.exists /\ u.exists) =>
                   Entries[i].data = t.data /\ Entries[i].data # u.data
             /\ (t.exists /\ ~u.exists) => Entries[i].data = t.data
             /\ (~t.exists /\ u.exists) => Entries[i].data = u.data

\* C2 witness: a returned archive holding a script found in both directories
\* and a script found only in the workspace.
BothDirectoriesHit ==
    /\ Returned
    /\ SystemdConfigured
    /\ \E n \in NameSet : /\ tmpDir.scripts[n].exists
                          /\ userDir[n].exists
                          /\ Members(n) # {}
    /\ \E n \in NameSet : /\ tmpDir.scripts[n].exists
                          /\ ~userDir[n].exists
                          /\ Members(n) # {}

\* the place of each member in the archive
MemberOrder ==
    <<"./md5sums", "./control", "./conffiles", "config", "preinst", "postinst",
      "prerm", "postrm", "templates", "./triggers">>

MemberRank(name) == CHOOSE r \in DOMAIN MemberOrder : MemberOrder[r] = name

\* the greatest rank a member may have once the step at pc is the next one
RankBefore(at) ==
    CASE at = "md5sums" -> 0
      [] at = "control" -> 1
      [] at = "conffiles" -> 2
      [] at \in {"scripts", "generate", "apply", "archive_scripts"} -> 3
      [] at = "triggers" -> 9
      [] OTHER -> 10

\* C3: the members of the archive are always in the one order md5sums,
\* control, conffiles, config, preinst, postinst, prerm, postrm, templates,
\* triggers; no step has appended its member before the steps ahead of it are
\* over; a returned archive starts with md5sums and control.
FixedMemberOrder ==
    /\ \A i \in DOMAIN Entries : Entries[i].name \in
                                 {MemberOrder[r] : r \in DOMAIN MemberOrder}
    /\ \A i, j \in DOMAIN Entries :
          i < j => MemberRank(Entries[i].name) < MemberRank(Entries[j].name)
    /\ pc \notin {"idle", "failed"} =>
          \A i \in DOMAIN Entries : MemberRank(Entries[i].name) <= RankBefore(pc)
    /\ Returned => /\ Len(result.bytes) >= 2
                   /\ result.bytes[1].name = "./md5sums"
                   /\ result.bytes[2].name = "./control"

\* C3 witness: a returned archive with two maintainer scripts between the
\* fixed members.
TwoScriptsInOrder ==
    /\ Returned
    /\ \E i, j \in DOMAIN Entries :
          /\ i < j
          /\ Entries[i].name \in NameSet
          /\ Entries[j].name \in NameSet
    /\ Members("./triggers") # {}
    /\ Members("./conffiles") # {}

\* the first directory of the search path holding the name, if any
FirstHolding(n) == FindFirst(search_dirs, n, userDir, tmpDir)

\* C4: with a maintainer-script directory configured, a script name is a
\* member of the resulting archive exactly when some directory of the search
\* path holds a file of that name, and then once, with mode 0755 and the
\* bytes of the first such directory's file.
ScriptMemberIffFound ==
    (Returned /\ IsSome(options.maintainer_scripts)) =>
       \A n \in NameSet :
          /\ (Members(n) # {}) <=> IsSome(FirstHolding(n))
          /\ \A i \in Members(n) :
                /\ Entries[i].mode = MODE_SCRIPT
                /\ Entries[i].data =
                      DirFile(Unwrap(FirstHolding(n)), n, userDir, tmpDir).data

\* C5: a returned archive holds md5sums and control once each, conffiles
\* exactly when conf_files is configured, and triggers exactly when
\* triggers_file is configured and the file can be read; the triggers step
\* never faults on a file it cannot read.
FixedMembers ==
    /\ Returned =>
          /\ Cardinality(Members("./md5sums")) = 1
          /\ Cardinality(Members("./control")) = 1
          /\ Cardinality(Members("./conffiles")) =
                (IF IsSome(options.conf_files) THEN 1 ELSE 0)
          /\ Cardinality(Members("./triggers")) =
                (IF IsSome(options.triggers_file) /\ IsSome(FsRead(triggersPath))
                 THEN 1 ELSE 0)
    /\ fault.step = "triggers" => IsSome(FsRead(triggersPath))

\* C5 witness: a call with a triggers file configured that cannot be read
\* returned an archive, with conffiles and without triggers.
UnreadableTriggersSkipped ==
    /\ Returned
    /\ IsSome(options.triggers_file)
    /\ ~IsSome(FsRead(triggersPath))
    /\ Members("./triggers") = {}
    /\ Members("./conffiles") # {}

\* the script dh_lib::apply generates for a name no user script exists for
GeneratedScript(n) == <<"#!/bin/sh", "set -e">> \o Fragment(n)

\* C6: whenever systemd_units is configured, a script that needs a fragment
\* and that the user did not supply is generated whole and is a member of the
\* returned archive.
MissingScriptGenerated ==
    (Returned /\ IsSome(options.systemd_units)) =>
       \A n \in Unwrap(options.systemd_units).needs :
          ~userDir[n].exists =>
             \E i \in Members(n) : Entries[i].data = GeneratedScript(n)

\* C7: two successful runs with the same configuration, assets, digests and
\* time return the same members, with the same names, bytes, modes and
\* times, in the same order.
Reproducible ==
    (Returned /\ IsSome(reference)) =>
       LET first == Unwrap(reference) IN
       (first.time = time /\ first.systemd_units = options.systemd_units)
          => result.bytes = first.bytes

\* C7 witness: a second run of a configuration with systemd integration
\* succeeded after the recorded one, scripts archived.
SecondRunReturned ==
    /\ Returned
    /\ IsSome(reference)
    /\ Unwrap(reference).again
    /\ SystemdConfigured
    /\ \E n \in NameSet : Members(n) # {}

\* the workspace the fragment generator must find
WorkspaceClean == tmpDir = EmptyDir

\* C10 (states): no call archives a workspace script an earlier call left;
\* the fragment generator starts on an empty workspace, the token
\* substitution on a workspace holding fragments only, the scripts are
\* resolved with nothing stale left in a workspace that is searched; without
\* systemd integration the workspace is not searched.
NoStaleScriptState ==
    /\ ~archivedStale
    /\ pc = "generate" => WorkspaceClean
    /\ pc = "apply" =>
          /\ tmpDir.exists
          /\ \A n \in NameSet : ~tmpDir.scripts[n].exists
          /\ tmpDir.frags = Unwrap(options.systemd_units).needs
    /\ (pc \in AfterApply /\ \E i \in DOMAIN search_dirs : search_dirs[i] = "tmp")
          => /\ staleNames = {}
             /\ SystemdConfigured
    /\ (pc \in AfterApply /\ SystemdConfigured) => search_dirs = <<"tmp", "user">>

\* C10 (steps): a call without systemd integration leaves the workspace as
\* it found it.
WorkspaceUntouched ==
    (~IsSome(options'.systemd_units) \/ ~IsSome(options'.maintainer_scripts))
       => tmpDir' = tmpDir

\* C10: over any sequence of calls sharing one workspace.
NoStaleScripts == []NoStaleScriptState /\ [][WorkspaceUntouched]_vars

\* C10 witness: a call without systemd integration returned an archive with
\* a user script while scripts of an earlier call lay in the workspace.
StaleWorkspaceIgnored ==
    /\ Returned
    /\ ~IsSome(options.systemd_units)
    /\ staleNames # {}
    /\ \E n \in staleNames : Members(n) # {} /\ userDir[n].exists

\* the order of the control fields
ControlOrder ==
    <<"Package", "Version", "Architecture", "Vcs-Browser", "Vcs-<Kind>",
      "Homepage", "Section", "Priority", "Standards-Version", "Maintainer",
      "Installed-Size", "Depends", "Build-Depends", "Conflicts", "Breaks",
      "Replaces", "Provides", "Description">>

VcsKindKeys == {"Vcs-Git", "Vcs-Svn"}

FieldSlot(key) ==
    CHOOSE r \in DOMAIN ControlOrder :
       ControlOrder[r] = (IF key \in VcsKindKeys THEN "Vcs-<Kind>" ELSE key)

\* the lines of the control text that start a field
ControlFields(data) == SelectSeq(data, LAMBDA l : l.kind \in {"field", "open"})

\* C8: the keys of the control text are a subsequence of the fixed order;
\* the nine mandatory fields are always there; every optional field is there
\* exactly when its value is: Vcs-Browser for a repository URL starting with
\* http, Vcs-<Kind> for a repository URL of a known kind, Homepage for a
\* homepage or else a documentation URL, whose value it carries.
ControlFieldOrder ==
    (pc = "conffiles" /\ Members("./control") # {}) =>
       LET fields == ControlFields(Entries[Len(Entries)].data)
           keys == {fields[i].key : i \in DOMAIN fields}
           Has(k) == k \in keys
           o == options
       IN
       /\ \A i \in DOMAIN fields :
             fields[i].key \in VcsKindKeys \cup
                               {ControlOrder[r] : r \in DOMAIN ControlOrder}
       /\ \A i, j \in DOMAIN fields :
             i < j => FieldSlot(fields[i].key) < FieldSlot(fields[j].key)
       /\ \A k \in {"Package", "Version", "Architecture", "Priority",
                    "Standards-Version", "Maintainer", "Installed-Size",
                    "Depends", "Description"} : Has(k)
       /\ Has("Vcs-Browser") <=>
             (IsSome(o.repository) /\ Unwrap(o.repository).scheme \in {"http", "https"})
       /\ (keys \cap VcsKindKeys # {}) <=>
             (IsSome(o.repository) /\ IsSome(RepositoryType(Unwrap(o.repository))))
       /\ Has("Homepage") <=> (IsSome(o.homepage) \/ IsSome(o.documentation))
       /\ \A i \in DOMAIN fields :
             fields[i].key = "Homepage" =>
                fields[i].value = (IF IsSome(o.homepage) THEN Unwrap(o.homepage)
                                   ELSE Unwrap(o.documentation))
       /\ Has("Section") <=> IsSome(o.section)
       /\ Has("Build-Depends") <=> IsSome(o.build_depends)
       /\ Has("Conflicts") <=> IsSome(o.conflicts)
       /\ Has("Breaks") <=> IsSome(o.breaks)
       /\ Has("Replaces") <=> IsSome(o.replaces)
       /\ Has("Provides") <=> IsSome(o.provides)

\* C8 witness: a control text with both repository lines, the homepage taken
\* from the documentation URL, and Conflicts without Breaks.
ControlWithOptionalFields ==
    /\ pc = "conffiles"
    /\ Members("./control") # {}
    /\ LET fields == ControlFields(Entries[Len(Entries)].data)
           keys == {fields[i].key : i \in DOMAIN fields}
       IN /\ {"Vcs-Browser", "Vcs-Git", "Homepage", "Conflicts"} \subseteq keys
          /\ "Breaks" \notin keys
          /\ ~IsSome(options.homepage)

\* the lines of a text: what stands before each newline
RECURSIVE TextLines(_, _)
TextLines(data, line) ==
    IF data = <<>> THEN (IF line = <<>> THEN <<>> ELSE <<line>>)
    ELSE IF Head(data) = "\n" THEN <<line>> \o TextLines(Tail(data), <<>>)
    ELSE TextLines(Tail(data), Append(line, Head(data)))

\* C9: the md5sums member has one line for every resolved asset with a
\* recorded digest, none for the others, in the order of the asset list;
\* a line is the digest in lowercase hex, two spaces, the path with forward
\* slashes, a newline. Without any digest the member is there and empty.
Md5sumsListsDigests ==
    pc = "control" =>
       /\ Len(Entries) = 1
       /\ Entries[1].name = "./md5sums"
       /\ Entries[1].mode = MODE_FILE
       /\ LET data == Entries[1].data
              hashed == SelectSeq(options.assets.resolved,
                           LAMBDA a : a.target_path \in DOMAIN asset_hashes)
              lines == TextLines(data, <<>>)
          IN /\ data # <<>> => data[Len(data)] = "\n"
             /\ Len(lines) = Len(hashed)
             /\ \A k \in DOMAIN hashed :
                   lines[k] = LowerHex(asset_hashes[hashed[k].target_path])
                              \o <<"  ">>
                              \o AsUnixPath(hashed[k].target_path)

\* C9 witness: an asset list with a digest for the second asset only.
SymlinkSkipped ==
    /\ pc = "control"
    /\ Len(options.assets.resolved) = 2
    /\ options.assets.resolved[1].target_path \notin DOMAIN asset_hashes
    /\ options.assets.resolved[2].target_path \in DOMAIN asset_hashes
    /\ Len(TextLines(Entries[1].data, <<>>)) = 1

====
